---- MODULE Spec2Model ----
(***************************************************************************)
(* Task-manager backend: the in-memory user and task stores, the auth      *)
(* controller (register, login), the protect middleware and the task       *)
(* routes behind it.  Strings are sequences of one-character strings so    *)
(* that the validators (isLength, notEmpty) and the sanitizers (trim,      *)
(* escape) are computed as express-validator computes them.                *)
(***************************************************************************)
EXTENDS Integers, Sequences, FiniteSets, TLC

(* ------------------------------ bounds --------------------------------- *)
\* ids handed out by uuidv4() for users over one run
MaxIds == 2
\* the clock runs from 0 to MaxTime seconds
MaxTime == 1
\* tasks in the task store
MaxTasks == 4
\* GET /api/tasks requests of the dashboard in flight
MaxFetches == 2

(* ------------------------------ strings -------------------------------- *)
None == [kind |-> "none"]
Undefined == [kind |-> "undefined"]

\* JavaScript truthiness of the values tested with `!x`
Truthy(v) == ~(v.kind \in {"undefined", "none"} \/ (v.kind = "text" /\ v.chars = <<>>))

TestUser == <<"t","e","s","t","u","s","e","r">>
SeedPassword == <<"p","a","s","s","w","o","r","d","1","2","3">>
U_bob == <<"b","o","b">>
U_blank == <<" "," "," ">>
U_ab == <<"a","b">>
U_lt == <<"<","b",">">>
P_secret1 == <<"s","e","c","r","e","t","1">>
P_short == <<"s","h","o","r","t">>

IsSpace(c) == c \in {" ", "\t", "\n"}

RECURSIVE TrimLeft(_)
TrimLeft(s) == IF s # <<>> /\ IsSpace(Head(s)) THEN TrimLeft(Tail(s)) ELSE s

RECURSIVE TrimRight(_)
TrimRight(s) ==
    IF s # <<>> /\ IsSpace(s[Len(s)]) THEN TrimRight(SubSeq(s, 1, Len(s) - 1)) ELSE s

\* validator.js trim(): strips leading and trailing whitespace
Trim(s) == TrimRight(TrimLeft(s))

\* the replacements of validator.js escape() for the characters of the modelled
\* alphabet (the double quote, backslash and backtick are not part of it)
EscapeChar(c) ==
    CASE c = "&"  -> <<"&","a","m","p",";">>
      [] c = "'"  -> <<"&","#","x","2","7",";">>
      [] c = "<"  -> <<"&","l","t",";">>
      [] c = ">"  -> <<"&","g","t",";">>
      [] c = "/"  -> <<"&","#","x","2","F",";">>
      [] OTHER    -> <<c>>

RECURSIVE Escape(_)
\* validator.js escape(): HTML-escapes the string
Escape(s) == IF s = <<>> THEN <<>> ELSE EscapeChar(Head(s)) \o Escape(Tail(s))

\* .trim().escape() at the end of the username chains
Sanitize(s) == Escape(Trim(s))

IsPrefix(p, s) == Len(p) <= Len(s) /\ SubSeq(s, 1, Len(p)) = p

(* ------------------------------ AppError ------------------------------- *)
MsgValidation == "Validation failed"
MsgConflict == "User with this username already exists"
MsgProvide == "Please provide username and password!"
MsgBadCreds == "Incorrect username or password"
MsgNotLoggedIn == "You are not logged in! Please log in to get access."
MsgStaleUser == "The user belonging to this token no longer exists."
MsgInvalidToken == "Invalid token. Please log in again!"
MsgExpired == "Your token has expired! Please log in again."
MsgAuthFailed == "Authentication failed."
MsgNoTask == "No task found with that ID or you do not have permission."
MsgRegister500 == "Could not register user"

\* new AppError(message, statusCode, validationErrors)
AppError(message, statusCode, validationErrors) ==
    [kind |-> "AppError",
     message |-> message,
     statusCode |-> statusCode,
     status |-> IF statusCode \div 100 = 4 THEN "fail" ELSE "error",
     isOperational |-> TRUE,
     validationErrors |-> validationErrors]


(* ------------------------------ state ---------------------------------- *)
VARIABLES
    users,        \* userModel: the users array, in insertion order
    nextId,       \* the next id uuidv4() hands to a user
    seeds,        \* seedUsers() calls suspended at `await bcrypt.hash`
    tasks,        \* taskModel: the tasks array
    nextTaskId,   \* the next id uuidv4() hands to a task
    taskModel,    \* the revision of the taskModel module the server loads
    timer,        \* TRUE while the setTimeout(updateTaskUserIds, 100) is pending
    pending,      \* per client: its register or login request suspended at an await
    now,          \* the clock, in seconds
    held,         \* per client: the token of its last register or login response
    nodeEnv,      \* process.env.NODE_ENV
    jwtSecret,    \* process.env.JWT_SECRET
    jwtExpiresIn, \* process.env.JWT_EXPIRES_IN, in seconds
    ui,           \* the browser: localStorage and the state of the React app
    last          \* the trace of the request the last step completed, if any

vars == <<users, nextId, seeds, tasks, nextTaskId, timer, pending, now, held,
          nodeEnv, jwtSecret, jwtExpiresIn, taskModel, ui, last>>

(* ------------------------------ userModel ------------------------------ *)
RECURSIVE Find(_, _, _)
\* Array.prototype.find: the first element whose field f equals v, or None
Find(arr, f, v) ==
    IF arr = <<>> THEN None
    ELSE IF Head(arr)[f] = v THEN Head(arr) ELSE Find(Tail(arr), f, v)

\* userModel.findById
UserFindById(us, id) == Find(us, "id", id)

\* userModel.findByUsername
FindByUsername(us, username) == Find(us, "username", username)

\* userModel.create({username, password}): the new record; the caller appends it
NewUser(id, username, password) ==
    [kind |-> "user", id |-> id, username |-> username, password |-> password]

\* bcrypt.hash(password, 12): the salt is embedded in the result
Hash(password, salt) == [kind |-> "bcrypt", cost |-> 12, salt |-> salt, pw |-> password]

\* bcrypt.compare(password, hash): rehash with the embedded salt and compare
Compare(password, hash) == Hash(password, hash.salt) = hash

CountUsername(us, username) ==
    Cardinality({i \in 1..Len(us) : us[i].username = username})

(* ------------------------------ tokens --------------------------------- *)
JwtSecret == "process-secret"
OtherSecret == "other-secret"
\* process.env.JWT_SECRET when the variable is not set
NoSecret == "undefined"
\* the configured process.env.JWT_EXPIRES_IN, in seconds
JwtExpiresIn == 1

\* signToken(id): jwt.sign({id}, JWT_SECRET, {expiresIn: JWT_EXPIRES_IN})
\* (jwt.sign throws when the secret has no value: see CanSign)
SignToken(id, t) ==
    [kind |-> "jwt", id |-> id, exp |-> t + jwtExpiresIn, sig |-> jwtSecret]

\* jwt.sign returns a token; otherwise it throws 'secretOrPrivateKey must have a value'
CanSign == jwtSecret # NoSecret

\* the `nbf` claim of a token, when it has one
NotBefore(token) == IF "nbf" \in DOMAIN token THEN token.nbf ELSE 0

\* mutant: jwt.decode in place of jwt.verify, no signature check
JwtVerify_DecodeOnly(token, secret, t) ==
    IF token.kind # "jwt" THEN [ok |-> FALSE, name |-> "JsonWebTokenError", id |-> 0]
    ELSE IF t >= token.exp THEN [ok |-> FALSE, name |-> "TokenExpiredError", id |-> 0]
    ELSE [ok |-> TRUE, name |-> "", id |-> token.id]

\* mutant: verify with ignoreExpiration
JwtVerify_IgnoreExpiration(token, secret, t) ==
    IF token.kind # "jwt" THEN [ok |-> FALSE, name |-> "JsonWebTokenError", id |-> 0]
    ELSE IF token.sig # secret THEN [ok |-> FALSE, name |-> "JsonWebTokenError", id |-> 0]
    ELSE [ok |-> TRUE, name |-> "", id |-> token.id]

\* mutant: the expiry is checked before the signature
JwtVerify_ExpiryFirst(token, secret, t) ==
    IF token.kind # "jwt" THEN [ok |-> FALSE, name |-> "JsonWebTokenError", id |-> 0]
    ELSE IF t >= token.exp THEN [ok |-> FALSE, name |-> "TokenExpiredError", id |-> 0]
    ELSE IF token.sig # secret THEN [ok |-> FALSE, name |-> "JsonWebTokenError", id |-> 0]
    ELSE [ok |-> TRUE, name |-> "", id |-> token.id]

\* jwt.verify(token, secret) at time t: malformed, then the secret and the signature,
\* then the not-before time, then the expiry
JwtVerify(token, secret, t) ==
    IF token.kind # "jwt" THEN [ok |-> FALSE, name |-> "JsonWebTokenError", id |-> 0]
    ELSE IF secret = NoSecret THEN [ok |-> FALSE, name |-> "JsonWebTokenError", id |-> 0]
    ELSE IF token.sig # secret THEN [ok |-> FALSE, name |-> "JsonWebTokenError", id |-> 0]
    ELSE IF NotBefore(token) > t THEN [ok |-> FALSE, name |-> "NotBeforeError", id |-> 0]
    ELSE IF t >= token.exp THEN [ok |-> FALSE, name |-> "TokenExpiredError", id |-> 0]
    ELSE [ok |-> TRUE, name |-> "", id |-> token.id]

(* ------------------------------ protect -------------------------------- *)
Bearer == <<"B","e","a","r","e","r">>
BearerX == <<"B","e","a","r","e","r","X">>
Basic == <<"B","a","s","i","c">>
Text(chars) == [kind |-> "text", chars |-> chars]
\* an Authorization header, as the fields authorization.split(' ') yields
Header(fields) == [kind |-> "header", fields |-> fields]

\* req.headers.authorization.startsWith('Bearer')
StartsWithBearer(hdr) ==
    /\ hdr.fields # <<>>
    /\ hdr.fields[1].kind = "text"
    /\ IsPrefix(Bearer, hdr.fields[1].chars)

\* req.headers.authorization.split(' ')[1]
ExtractToken(hdr) == IF Len(hdr.fields) >= 2 THEN hdr.fields[2] ELSE Undefined

Rejected(err, verified, lookedUp) ==
    [outcome |-> "REJECTED", err |-> err, user |-> None,
     verified |-> verified, lookedUp |-> lookedUp]

\* mutant: no `if (!currentUser)` check before req.user is set
Protect_NoStaleCheck(hdr, us, t) ==
    LET token == IF Truthy(hdr) /\ StartsWithBearer(hdr) THEN ExtractToken(hdr)
                 ELSE Undefined
    IN  IF ~Truthy(token) THEN Rejected(AppError(MsgNotLoggedIn, 401, <<>>), FALSE, FALSE)
        ELSE LET decoded == JwtVerify(token, jwtSecret, t)
             IN  IF decoded.ok
                 THEN [outcome |-> "ACCEPTED", err |-> None,
                       user |-> UserFindById(us, decoded.id),
                       verified |-> TRUE, lookedUp |-> TRUE]
                 ELSE IF decoded.name = "JsonWebTokenError"
                      THEN Rejected(AppError(MsgInvalidToken, 401, <<>>), TRUE, FALSE)
                 ELSE IF decoded.name = "TokenExpiredError"
                      THEN Rejected(AppError(MsgExpired, 401, <<>>), TRUE, FALSE)
                 ELSE Rejected(AppError(MsgAuthFailed, 500, <<>>), TRUE, FALSE)

\* mutant: the catch passes the error of jwt.verify on as it is
Protect_PassThrough(hdr, us, t) ==
    LET token == IF Truthy(hdr) /\ StartsWithBearer(hdr) THEN ExtractToken(hdr)
                 ELSE Undefined
    IN  IF ~Truthy(token) THEN Rejected(AppError(MsgNotLoggedIn, 401, <<>>), FALSE, FALSE)
        ELSE LET decoded == JwtVerify(token, jwtSecret, t)
                 currentUser == UserFindById(us, decoded.id)
             IN  IF decoded.ok
                 THEN IF ~Truthy(currentUser)
                      THEN Rejected(AppError(MsgStaleUser, 401, <<>>), TRUE, TRUE)
                      ELSE [outcome |-> "ACCEPTED", err |-> None, user |-> currentUser,
                            verified |-> TRUE, lookedUp |-> TRUE]
                 ELSE Rejected([kind |-> decoded.name, message |-> "jwt not active",
                                statusCode |-> 500, status |-> "error",
                                isOperational |-> FALSE, validationErrors |-> <<>>],
                               TRUE, FALSE)

\* protect(req, res, next): what it passes to next, whether it set req.user
Protect(hdr, us, t) ==
    LET token == IF Truthy(hdr) /\ StartsWithBearer(hdr) THEN ExtractToken(hdr)
                 ELSE Undefined
    IN  IF ~Truthy(token) THEN Rejected(AppError(MsgNotLoggedIn, 401, <<>>), FALSE, FALSE)
        ELSE LET decoded == JwtVerify(token, jwtSecret, t)
                 currentUser == UserFindById(us, decoded.id)
             IN  IF decoded.ok
                 THEN IF ~Truthy(currentUser)
                      THEN Rejected(AppError(MsgStaleUser, 401, <<>>), TRUE, TRUE)
                      ELSE [outcome |-> "ACCEPTED", err |-> None, user |-> currentUser,
                            verified |-> TRUE, lookedUp |-> TRUE]
                 ELSE IF decoded.name = "JsonWebTokenError"
                      THEN Rejected(AppError(MsgInvalidToken, 401, <<>>), TRUE, FALSE)
                 ELSE IF decoded.name = "TokenExpiredError"
                      THEN Rejected(AppError(MsgExpired, 401, <<>>), TRUE, FALSE)
                 ELSE Rejected(AppError(MsgAuthFailed, 500, <<>>), TRUE, FALSE)


\* a call of next: its argument, and req.user at the time of the call
NextCall(arg, user) == [arg |-> arg, user |-> user]

\* mutant: `next(new AppError(...))` for the stale user without its `return`
ProtectCalls_NoReturn(hdr, us, t) ==
    LET token == IF Truthy(hdr) /\ StartsWithBearer(hdr) THEN ExtractToken(hdr)
                 ELSE Undefined
    IN  IF ~Truthy(token) THEN <<NextCall(AppError(MsgNotLoggedIn, 401, <<>>), None)>>
        ELSE LET decoded == JwtVerify(token, jwtSecret, t)
                 currentUser == UserFindById(us, decoded.id)
             IN  IF decoded.ok
                 THEN (IF ~Truthy(currentUser)
                       THEN <<NextCall(AppError(MsgStaleUser, 401, <<>>), None)>>
                       ELSE <<>>)
                      \o <<NextCall(None, currentUser)>>
                 ELSE IF decoded.name = "JsonWebTokenError"
                      THEN <<NextCall(AppError(MsgInvalidToken, 401, <<>>), None)>>
                 ELSE IF decoded.name = "TokenExpiredError"
                      THEN <<NextCall(AppError(MsgExpired, 401, <<>>), None)>>
                 ELSE <<NextCall(AppError(MsgAuthFailed, 500, <<>>), None)>>

\* protect(req, res, next): the calls of next it makes, in order.  The statements
\* of the try block run until one returns or jwt.verify throws; the catch block
\* runs only after a throw (next itself does not throw: Express catches what the
\* handlers behind it throw)
ProtectCalls(hdr, us, t) ==
    LET token == IF Truthy(hdr) /\ StartsWithBearer(hdr) THEN ExtractToken(hdr)
                 ELSE Undefined
    IN  IF ~Truthy(token) THEN <<NextCall(AppError(MsgNotLoggedIn, 401, <<>>), None)>>
        ELSE LET decoded == JwtVerify(token, jwtSecret, t)
                 currentUser == UserFindById(us, decoded.id)
             IN  IF decoded.ok
                 THEN IF ~Truthy(currentUser)
                      THEN <<NextCall(AppError(MsgStaleUser, 401, <<>>), None)>>
                      ELSE <<NextCall(None, currentUser)>>
                 ELSE IF decoded.name = "JsonWebTokenError"
                      THEN <<NextCall(AppError(MsgInvalidToken, 401, <<>>), None)>>
                 ELSE IF decoded.name = "TokenExpiredError"
                      THEN <<NextCall(AppError(MsgExpired, 401, <<>>), None)>>
                 ELSE <<NextCall(AppError(MsgAuthFailed, 500, <<>>), None)>>

(* ------------------------------ responses ------------------------------ *)
NoResponse == [sent |-> FALSE, statusCode |-> 0, body |-> None]

\* res.status(statusCode).json(body)
Json(statusCode, body) == [sent |-> TRUE, statusCode |-> statusCode, body |-> body]

\* sendErrorDev: the body carries the error object itself; the stack is not modelled
SendErrorDev(err) ==
    Json(err.statusCode,
         [kind |-> "error", status |-> err.status, error |-> err, message |-> err.message,
          validationErrors |-> err.validationErrors])

\* sendErrorProd
SendErrorProd(err) ==
    IF err.isOperational
    THEN Json(err.statusCode,
              [kind |-> "error", status |-> err.status, message |-> err.message,
               validationErrors |-> <<>>])
    ELSE Json(500, [kind |-> "error", status |-> "error",
                    message |-> "Something went very wrong!", validationErrors |-> <<>>])

\* the global error handler: the response to an error passed to next()
ErrorHandler(err, env) ==
    IF env = "development" THEN SendErrorDev(err)
    ELSE IF env = "production" THEN SendErrorProd(err)
    ELSE NoResponse

\* what a controller throws when it reads req.user.id and req.user is undefined
TypeError ==
    [kind |-> "TypeError", message |-> "Cannot read properties of undefined",
     statusCode |-> 500, status |-> "error", isOperational |-> FALSE,
     validationErrors |-> <<>>]

\* what jwt.sign throws when process.env.JWT_SECRET has no value
SignError ==
    [kind |-> "Error", message |-> "secretOrPrivateKey must have a value",
     statusCode |-> 500, status |-> "error", isOperational |-> FALSE,
     validationErrors |-> <<>>]

(* ------------------------------ validation ----------------------------- *)
VErr(param, msg) == [param |-> param, msg |-> msg]

\* the chains of POST /register, run on the raw body
RegisterErrors(u, p) ==
    (IF Len(u) < 3 THEN <<VErr("username", "Username must be at least 3 characters long")>>
     ELSE <<>>)
    \o (IF Len(p) < 6
        THEN <<VErr("password", "Password must be at least 6 characters long")>>
        ELSE <<>>)

\* the chains of POST /login, run on the raw body
LoginErrors(u, p) ==
    (IF Len(u) = 0 THEN <<VErr("username", "Username is required")>> ELSE <<>>)
    \o (IF Len(p) = 0 THEN <<VErr("password", "Password is required")>> ELSE <<>>)

\* mutant: validate calls next() whatever the validation result
Validate_Off(errors) == None

\* validate(req, res, next): the error it passes to next, or None
Validate(errors) ==
    IF errors = <<>> THEN None ELSE AppError(MsgValidation, 400, errors)

(* ------------------------------ auth controller ------------------------ *)
\* mutant: the stored record is sent as the user view
UserView_Whole(user) == user

\* the user view of the register and login responses
UserView(user) == [id |-> user.id, username |-> user.username]

AuthBody(token, user) ==
    [kind |-> "auth", status |-> "success", token |-> token, user |-> UserView(user)]

\* mutant: a separate error for the unknown username
LoginCheck_Enumerating(user, passwordOk) ==
    IF ~Truthy(user) THEN AppError("No user with this username", 404, <<>>)
    ELSE IF ~passwordOk THEN AppError(MsgBadCreds, 401, <<>>) ELSE None

\* login, step 3: `!user || !(await bcrypt.compare(...))`
LoginCheck(user, passwordOk) ==
    IF ~Truthy(user) \/ ~passwordOk THEN AppError(MsgBadCreds, 401, <<>>) ELSE None

\* login up to its await: the error it ends with, or the user it goes on with
LoginBegin(us, u, p) ==
    LET invalid == Validate(LoginErrors(u, p))
        username == Sanitize(u)
        user == FindByUsername(us, username)
    IN  IF Truthy(invalid) THEN [done |-> TRUE, ran |-> FALSE, err |-> invalid, user |-> None]
        ELSE IF username = <<>> \/ p = <<>>
        THEN [done |-> TRUE, ran |-> TRUE, err |-> AppError(MsgProvide, 400, <<>>),
              user |-> None]
        ELSE IF ~Truthy(user)
        THEN [done |-> TRUE, ran |-> TRUE, err |-> LoginCheck(user, FALSE), user |-> None]
        ELSE [done |-> FALSE, ran |-> TRUE, err |-> None, user |-> user]

\* login after its await: the error it ends with, or None
LoginEnd(user, p) == LoginCheck(user, Compare(p, user.password))

\* register up to its await: the error it ends with, or None
RegisterBegin(us, u, p) ==
    LET invalid == Validate(RegisterErrors(u, p))
    IN  IF Truthy(invalid) THEN [ran |-> FALSE, err |-> invalid]
        ELSE IF Truthy(FindByUsername(us, Sanitize(u)))
        THEN [ran |-> TRUE, err |-> AppError(MsgConflict, 409, <<>>)]
        ELSE [ran |-> TRUE, err |-> None]


(* ------------------------------ taskModel ------------------------------ *)
\* 'testuser_id_placeholder', the userId of the seeded tasks
Placeholder == 0

T_api == <<"A","P","I">>
T_react == <<"R","e","a","c","t">>
T_tests == <<"T","e","s","t","s">>
T_deploy == <<"D","e","p","l","o","y">>
T_review == <<"R","e","v","i","e","w">>
T_docs == <<"D","o","c","s">>
T_plan == <<"P","l","a","n">>
T_refactor == <<"R","e","f","a","c","t","o","r">>
T_optimize == <<"O","p","t","i","m","i","z","e">>
T_cicd == <<"C","I","/","C","D">>
T_new == <<"n","e","w">>
T_x == <<"x">>

Task(id, userId, title, description, completed) ==
    [kind |-> "task", id |-> id, userId |-> userId, title |-> title,
     description |-> description, completed |-> completed]

\* the tasks array at module load
SeedTasks ==
    << Task(1, Placeholder, T_api, Undefined, FALSE),
       Task(2, Placeholder, T_react, Undefined, FALSE),
       Task(3, Placeholder, T_tests, Undefined, FALSE) >>

\* the two revisions of the module in the sources: models/taskModel.js, and the
\* later one whose tasks carry a status
TaskModels == {"taskModel.js", "part_003"}

Statuses == {"todo", "in-progress", "completed"}

WithStatus(task, status) == task @@ [status |-> status]

\* the tasks array of the later revision at module load
SeedTasksWithStatus ==
    << WithStatus(Task(1, Placeholder, T_api, Undefined, FALSE), "in-progress"),
       WithStatus(Task(2, Placeholder, T_react, Undefined, FALSE), "todo"),
       WithStatus(Task(3, Placeholder, T_tests, Undefined, FALSE), "todo"),
       WithStatus(Task(4, Placeholder, T_deploy, Undefined, FALSE), "todo"),
       WithStatus(Task(5, Placeholder, T_review, Undefined, FALSE), "in-progress"),
       WithStatus(Task(6, Placeholder, T_docs, Undefined, FALSE), "completed"),
       WithStatus(Task(7, Placeholder, T_plan, Undefined, FALSE), "todo"),
       WithStatus(Task(8, Placeholder, T_refactor, Undefined, FALSE), "in-progress"),
       WithStatus(Task(9, Placeholder, T_optimize, Undefined, FALSE), "todo"),
       WithStatus(Task(10, Placeholder, T_cicd, Undefined, FALSE), "todo") >>

SeedsOf(rev) == IF rev = "part_003" THEN SeedTasksWithStatus ELSE SeedTasks

\* taskModel.create: the record pushed for the object the controller passes.  The
\* first revision destructures userId, title, description, completed; the later one
\* also status, "todo" when the object has none
TaskCreate(rev, id, args) ==
    LET task == Task(id, args.userId, args.title, args.description, args.completed)
    IN  IF rev = "part_003"
        THEN WithStatus(task, IF "status" \in DOMAIN args THEN args.status ELSE "todo")
        ELSE task

\* taskModel.findById: a task record, or None
TaskFindById(ts, id) ==
    IF \E i \in 1..Len(ts) : ts[i].id = id
    THEN ts[CHOOSE i \in 1..Len(ts) : ts[i].id = id /\ \A j \in 1..(i-1) : ts[j].id # id]
    ELSE None

\* mutant: no filter on the owner
FindByUserId_All(ts, userId) == ts

\* taskModel.findByUserId
FindByUserId(ts, userId) == SelectSeq(ts, LAMBDA t : t.userId = userId)

\* mutant: the spread of the updates is not followed by the stored id and userId
TaskMerge_Spread(task, updates) ==
    [k \in (DOMAIN task) \cup (DOMAIN updates) |->
        IF k \in DOMAIN updates THEN updates[k] ELSE task[k]]

\* taskModel.update: spread the stored task, then the updates, then id and userId
TaskMerge(task, updates) ==
    [k \in (DOMAIN task) \cup (DOMAIN updates) |->
        IF k \in {"id", "userId"} THEN task[k]
        ELSE IF k \in DOMAIN updates THEN updates[k] ELSE task[k]]

TaskUpdate(ts, id, updates) ==
    [i \in 1..Len(ts) |->
        IF ts[i].id = id /\ \A j \in 1..(i-1) : ts[j].id # id
        THEN TaskMerge(ts[i], updates) ELSE ts[i]]

\* mutant: the filter also drops the tasks stored after the one removed
TaskRemove_Tail(ts, id) == SelectSeq(ts, LAMBDA t : t.id < id)

\* taskModel.remove: the tasks array it leaves
TaskRemove(ts, id) == SelectSeq(ts, LAMBDA t : t.id # id)

\* taskModel.remove: the value it returns, `tasks.length < initialLength`
TaskRemoved(ts, id) == Len(TaskRemove(ts, id)) < Len(ts)

\* updateTaskUserIds: link the placeholder tasks to 'testuser', if it exists
LinkTasks(ts, us) ==
    LET testUser == FindByUsername(us, TestUser)
    IN  IF Truthy(testUser)
        THEN [i \in 1..Len(ts) |->
                IF ts[i].userId = Placeholder
                THEN [ts[i] EXCEPT !.userId = testUser.id] ELSE ts[i]]
        ELSE ts

(* ------------------------------ task routes ---------------------------- *)
Routes == {"list", "get", "create", "update", "delete"}

Has(body, f) == f \in DOMAIN body

\* the validation chains of the task routes, run on the raw request
TaskErrors(route, idp, body) ==
    LET idErr == IF route \in {"get", "update", "delete"} /\ ~idp.uuid
                 THEN <<VErr("id", "Task ID must be a valid UUID")>> ELSE <<>>
        title == IF Has(body, "title") THEN body.title ELSE <<>>
        createErr ==
            (IF Len(title) = 0 THEN <<VErr("title", "Title is required")>> ELSE <<>>)
            \o (IF Len(title) < 3
                THEN <<VErr("title", "Title must be at least 3 characters long")>>
                ELSE <<>>)
        updateErr ==
            IF Has(body, "title") /\ Len(title) < 3
            THEN <<VErr("title", "Title must be at least 3 characters long")>> ELSE <<>>
    IN  idErr \o (IF route = "create" THEN createErr
                  ELSE IF route = "update" THEN updateErr ELSE <<>>)

\* req.body after the sanitizers of the chains (.trim().escape() on title)
SanitizeBody(body) ==
    [k \in DOMAIN body |-> IF k = "title" THEN Sanitize(body[k]) ELSE body[k]]

NoGate ==
    [outcome |-> "NONE", err |-> None, user |-> None, verified |-> FALSE,
     lookedUp |-> FALSE]

Outcome(gate, ranValidator, ranController, err, ok, ts) ==
    [gate |-> gate, ranValidator |-> ranValidator, ranController |-> ranController,
     err |-> err, ok |-> ok, tasks |-> ts]

\* mutant: the handlers test only that the task exists
Owns_Any(task, user) == Truthy(task)

\* the negation of `!task || task.userId !== userId` in getTask, updateTask, deleteTask
Owns(task, user) == Truthy(task) /\ task.userId = user.id

\* taskController: the handler of a route, with req.user set by the gate
Controller(route, gate, idp, body, ts, ntid) ==
    LET user == gate.user
        task == TaskFindById(ts, idp.n)
        mine == Owns(task, user)
        notFound == AppError(MsgNoTask, 404, <<>>)
    IN  IF ~Truthy(user) THEN Outcome(gate, route # "list", TRUE, TypeError, None, ts)
        ELSE IF route = "list"
        THEN LET found == FindByUserId(ts, user.id)
             IN  Outcome(gate, FALSE, TRUE, None,
                         Json(200, [kind |-> "tasks", status |-> "success",
                                    results |-> Len(found), tasks |-> found]), ts)
        ELSE IF route = "create"
        THEN LET newTask ==
                     TaskCreate(taskModel, ntid,
                                [userId |-> user.id, title |-> body.title,
                                 description |-> IF Has(body, "description")
                                                 THEN body.description ELSE Undefined,
                                 completed |-> IF Has(body, "completed")
                                               THEN body.completed ELSE FALSE])
             IN  Outcome(gate, TRUE, TRUE, None,
                         Json(201, [kind |-> "task", status |-> "success",
                                    task |-> newTask]), Append(ts, newTask))
        ELSE IF ~mine THEN Outcome(gate, TRUE, TRUE, notFound, None, ts)
        ELSE IF route = "get"
        THEN Outcome(gate, TRUE, TRUE, None,
                     Json(200, [kind |-> "task", status |-> "success", task |-> task]), ts)
        ELSE IF route = "update"
        THEN LET updated == TaskUpdate(ts, idp.n, body)
             IN  Outcome(gate, TRUE, TRUE, None,
                         Json(200, [kind |-> "task", status |-> "success",
                                    task |-> TaskFindById(updated, idp.n)]), updated)
        ELSE Outcome(gate, TRUE, TRUE, None,
                     Json(204, [kind |-> "empty", status |-> "success"]),
                     TaskRemove(ts, idp.n))

\* mutant: router.use(protect) placed after the POST route
GateFor_AfterCreate(route, hdr, us, t) ==
    IF route = "create" THEN NoGate ELSE Protect(hdr, us, t)

\* router.use(protect): the gate in front of every route of the task router
GateFor(route, hdr, us, t) == Protect(hdr, us, t)

\* a request to /api/tasks: the gate, then the validator, then the controller
TaskPipeline(route, hdr, idp, body, us, ts, ntid, t) ==
    LET gate == GateFor(route, hdr, us, t)
        invalid == Validate(TaskErrors(route, idp, body))
    IN  IF gate.outcome = "REJECTED" THEN Outcome(gate, FALSE, FALSE, gate.err, None, ts)
        ELSE IF route # "list" /\ Truthy(invalid)
        THEN Outcome(gate, TRUE, FALSE, invalid, None, ts)
        ELSE Controller(route, gate, idp, SanitizeBody(body), ts, ntid)


(* ------------------------------ browser -------------------------------- *)
\* JSON.stringify(value): a text, which is not the value
JsonStringify(value) == [kind |-> "json", of |-> value]

\* a stored text that is not JSON
NotJson == [kind |-> "text", chars |-> <<"{">>]

\* JSON.parse(text): the value, or a SyntaxError
JsonParse(text) ==
    IF text.kind = "json" THEN [ok |-> TRUE, value |-> text.of]
    ELSE [ok |-> FALSE, value |-> None]

\* localStorage: the items 'token' and 'user' (None: getItem returns null)
Storage(token, user) == [token |-> token, user |-> user]

\* the browser before the page is opened
Closed(storage) ==
    [open |-> FALSE, storage |-> storage, token |-> None, user |-> None,
     loading |-> FALSE, awaiting |-> FALSE, allTasks |-> <<>>, fetches |-> <<>>]

\* AuthProvider's first render: the useState initialisers
FirstRender(storage) ==
    [open |-> TRUE, storage |-> storage, token |-> storage.token, user |-> None,
     loading |-> TRUE, awaiting |-> FALSE, allTasks |-> <<>>, fetches |-> <<>>]

\* AuthProvider's mount effect
MountEffect(u) ==
    LET storedToken == u.storage.token
        storedUser == u.storage.user
        parsed == JsonParse(storedUser)
    IN  IF Truthy(storedToken) /\ Truthy(storedUser)
        THEN IF parsed.ok
             THEN [u EXCEPT !.token = storedToken, !.user = parsed.value,
                            !.loading = FALSE]
             ELSE [u EXCEPT !.storage = Storage(None, None), !.token = None,
                            !.user = None, !.loading = FALSE]
        ELSE [u EXCEPT !.loading = FALSE]

\* login and register after their await: store and set the token and the user
LoggedIn(u, data) ==
    [u EXCEPT !.storage = Storage(data.token, JsonStringify(data.user)),
              !.token = data.token, !.user = data.user]

\* logout
Logout(u) ==
    [u EXCEPT !.token = None, !.user = None, !.storage = Storage(None, None)]

\* isAuthenticated: !!token
IsAuthenticated(u) == Truthy(u.token)

\* App: what AppContent renders
Shown(u) ==
    IF ~u.open THEN "nothing"
    ELSE IF u.loading THEN "spinner"
    ELSE IF IsAuthenticated(u) THEN "dashboard" ELSE "auth"

\* request(): the Authorization header for a token
AuthorizationOf(token) ==
    IF Truthy(token) THEN Header(<<[kind |-> "text", chars |-> Bearer], token>>) ELSE None

\* handleResponse: the parsed body of an ok response, or the error thrown, with
\* the response's status as statusCode.  A 204 has no body: response.json()
\* rejects with a SyntaxError, which has no statusCode
ApiResult(resp) ==
    IF ~(resp.statusCode \in 200..299)
    THEN [ok |-> FALSE, statusCode |-> resp.statusCode, data |-> None]
    ELSE IF resp.statusCode = 204
    THEN [ok |-> FALSE, statusCode |-> 0, data |-> None]
    ELSE [ok |-> TRUE, statusCode |-> resp.statusCode, data |-> resp.body]

\* a getTasks(token) call of fetchTasks, in flight; live while the DashboardPage
\* that made it is mounted
Fetch(token) == [token |-> token, phase |-> "sent", resp |-> NoResponse, live |-> TRUE]

\* fetchTasks up to its await
FetchTasks(u) == [u EXCEPT !.fetches = Append(@, Fetch(u.token))]

\* DashboardPage mounts with allTasks = [], and its effect calls fetchTasks; when
\* it unmounts, the setAllTasks of its fetches no longer has an effect
Render(before, after) ==
    IF Shown(after) = "dashboard" /\ Shown(before) # "dashboard"
    THEN FetchTasks([after EXCEPT !.allTasks = <<>>])
    ELSE IF Shown(after) # "dashboard" /\ Shown(before) = "dashboard"
    THEN [after EXCEPT !.allTasks = <<>>,
                       !.fetches = [i \in DOMAIN @ |-> [@[i] EXCEPT !.live = FALSE]]]
    ELSE after

Without(seq, i) == SubSeq(seq, 1, i - 1) \o SubSeq(seq, i + 1, Len(seq))

\* mutant: only a 403 logs out
FetchSettled_403(u, i) ==
    LET f == u.fetches[i]
        result == ApiResult(f.resp)
        rest == [u EXCEPT !.fetches = Without(@, i)]
    IN  IF result.ok
        THEN IF f.live THEN [rest EXCEPT !.allTasks = result.data.tasks] ELSE rest
        ELSE IF result.statusCode = 403 THEN Render(rest, Logout(rest)) ELSE rest

\* fetchTasks after its await, for the i-th call in flight
FetchSettled(u, i) ==
    LET f == u.fetches[i]
        result == ApiResult(f.resp)
        rest == [u EXCEPT !.fetches = Without(@, i)]
    IN  IF result.ok
        THEN IF f.live THEN [rest EXCEPT !.allTasks = result.data.tasks] ELSE rest
        ELSE IF result.statusCode = 401 \/ result.statusCode = 403
        THEN Render(rest, Logout(rest))
        ELSE rest

(* ------------------------------ traces --------------------------------- *)
Trace(op, route, req, gate, ranValidator, ranController, err, resp) ==
    [op |-> op, route |-> route, req |-> req, gate |-> gate,
     ranValidator |-> ranValidator, ranController |-> ranController,
     err |-> err, resp |-> resp]

NoTrace == Trace("none", "", None, NoGate, FALSE, FALSE, None, NoResponse)

\* the trace of a request that ended with next(err)
Failed(op, route, req, gate, ranValidator, ranController, err) ==
    Trace(op, route, req, gate, ranValidator, ranController, err,
          ErrorHandler(err, nodeEnv))

Creds(u, p) == [username |-> u, password |-> p]

(* ------------------------------ inputs --------------------------------- *)
\* the clients: each has at most one auth request in flight and keeps one token
Clients == {"c1", "c2"}
Idle == [op |-> "idle"]

NodeEnvs == {"development", "production", "unset"}

Garbage == Text(<<"x">>)
\* tokens signed with another secret, for the ids handed out so far
Forged == {[kind |-> "jwt", id |-> i, exp |-> e, sig |-> OtherSecret] :
              i \in 1..(nextId - 1), e \in {0, MaxTime + 1}}

HeldTokens == {held[c] : c \in Clients} \ {None}

\* Authorization headers carrying a token a client was handed
HeldHeaders ==
    {Header(<<Text(s), tok>>) : s \in {Bearer, BearerX, Basic}, tok \in HeldTokens}
    \cup {Header(<<Text(Bearer), Text(<<>>), tok>>) : tok \in HeldTokens}

\* all the Authorization headers a request may carry
Headers ==
    {None, Header(<<Text(Bearer)>>)}
    \cup {Header(<<Text(Bearer), tok>>) : tok \in Forged \cup {Garbage}}
    \cup HeldHeaders

Uuid(n) == [uuid |-> TRUE, n |-> n]
NotUuid == [uuid |-> FALSE, n |-> 0]

(* ------------------------------ actions -------------------------------- *)
InitServer(envs, secrets, lifetimes, revs) ==
    /\ taskModel \in revs
    /\ users = <<>>
    /\ nextId = 1
    /\ seeds = 1
    /\ tasks = SeedsOf(taskModel)
    /\ nextTaskId = Len(SeedsOf(taskModel)) + 1
    /\ timer = TRUE
    /\ pending = [c \in Clients |-> Idle]
    /\ now = 0
    /\ held = [c \in Clients |-> None]
    /\ nodeEnv \in envs
    /\ jwtSecret \in secrets
    /\ jwtExpiresIn \in lifetimes
    /\ last = NoTrace

\* the server alone: no browser has the page open
InitOf(envs, secrets, lifetimes, revs) ==
    /\ InitServer(envs, secrets, lifetimes, revs)
    /\ ui = Closed(Storage(None, None))

InitWith(envs, secrets, lifetimes) == InitOf(envs, secrets, lifetimes, {"taskModel.js"})

Init == InitWith({"production"}, {JwtSecret}, {JwtExpiresIn})

\* mutant: the seed replaces the array by the default user alone
SeedFinish_Overwrite ==
    /\ seeds > 0
    /\ nextId <= MaxIds
    /\ users' = <<NewUser(nextId, TestUser, Hash(SeedPassword, nextId))>>
    /\ nextId' = nextId + 1
    /\ seeds' = seeds - 1
    /\ last' = NoTrace
    /\ UNCHANGED <<tasks, nextTaskId, timer, pending, now, held, nodeEnv, jwtSecret,
                   jwtExpiresIn, taskModel, ui>>

\* seedUsers() resumes after `await bcrypt.hash` and pushes the default user
SeedFinish ==
    /\ seeds > 0
    /\ nextId <= MaxIds
    /\ users' = Append(users, NewUser(nextId, TestUser, Hash(SeedPassword, nextId)))
    /\ nextId' = nextId + 1
    /\ seeds' = seeds - 1
    /\ last' = NoTrace
    /\ UNCHANGED <<tasks, nextTaskId, timer, pending, now, held, nodeEnv, jwtSecret,
                       jwtExpiresIn, taskModel, ui>>

\* userModel.clearAll(): empty the array, then seedUsers() up to its await
ClearAll ==
    /\ seeds < MaxIds
    /\ users' = <<>>
    /\ seeds' = IF ~Truthy(FindByUsername(<<>>, TestUser)) THEN seeds + 1 ELSE seeds
    /\ last' = NoTrace
    /\ UNCHANGED <<nextId, tasks, nextTaskId, timer, pending, now, held, nodeEnv, jwtSecret,
                       jwtExpiresIn, taskModel, ui>>

\* the setTimeout(updateTaskUserIds, 100) callback
UpdateTaskUserIds ==
    /\ timer
    /\ timer' = FALSE
    /\ tasks' = LinkTasks(tasks, users)
    /\ last' = NoTrace
    /\ UNCHANGED <<users, nextId, seeds, nextTaskId, pending, now, held, nodeEnv, jwtSecret,
                       jwtExpiresIn, taskModel, ui>>

Tick ==
    /\ now < MaxTime
    /\ now' = now + 1
    /\ last' = NoTrace
    /\ UNCHANGED <<users, nextId, seeds, tasks, nextTaskId, timer, pending, held, nodeEnv, jwtSecret,
                       jwtExpiresIn, taskModel, ui>>

\* POST /api/auth/register up to `await bcrypt.hash`
ServeRegisterStart(c, u, p) ==
    \E begin \in {RegisterBegin(users, u, p)} :
        /\ pending[c] = Idle
        /\ IF Truthy(begin.err)
           THEN /\ last' = Failed("register", "register", Creds(u, p), NoGate, TRUE,
                                  begin.ran, begin.err)
                /\ pending' = pending
           ELSE /\ pending' = [pending EXCEPT ![c] =
                                 [op |-> "register", username |-> Sanitize(u),
                                  password |-> p, raw |-> u]]
                /\ last' = NoTrace
        /\ UNCHANGED <<users, nextId, seeds, tasks, nextTaskId, timer, now, held, nodeEnv, jwtSecret,
                       jwtExpiresIn, taskModel>>

\* the same for an API client other than the browser
RegisterStart(c, u, p) == ServeRegisterStart(c, u, p) /\ UNCHANGED ui

\* register after the await: create the user, sign a token, respond 201; when
\* signToken throws (bcrypt.hash of a string does not), the catch passes a 500 on
ServeRegisterFinish(c) ==
    LET r == pending[c]
        newUser == NewUser(nextId, r.username, Hash(r.password, nextId))
        token == SignToken(newUser.id, now)
    IN  /\ r.op = "register"
        /\ nextId <= MaxIds
        /\ users' = Append(users, newUser)
        /\ nextId' = nextId + 1
        /\ pending' = [pending EXCEPT ![c] = Idle]
        /\ IF CanSign
           THEN /\ held' = [held EXCEPT ![c] = token]
                /\ last' = Trace("register", "register", Creds(r.raw, r.password), NoGate,
                                 TRUE, TRUE, None, Json(201, AuthBody(token, newUser)))
           ELSE /\ held' = held
                /\ last' = Failed("register", "register", Creds(r.raw, r.password), NoGate,
                                  TRUE, TRUE, AppError(MsgRegister500, 500, <<>>))
        /\ UNCHANGED <<seeds, tasks, nextTaskId, timer, now, nodeEnv, jwtSecret,
                       jwtExpiresIn, taskModel>>

\* the same for an API client other than the browser
RegisterFinish(c) == ServeRegisterFinish(c) /\ UNCHANGED ui

\* POST /api/auth/login up to `await bcrypt.compare`
ServeLoginStart(c, u, p) ==
    \E begin \in {LoginBegin(users, u, p)} :
        /\ pending[c] = Idle
        /\ IF begin.done
           THEN /\ last' = Failed("login", "login", Creds(u, p), NoGate, TRUE, begin.ran,
                                  begin.err)
                /\ pending' = pending
           ELSE /\ pending' = [pending EXCEPT ![c] =
                                 [op |-> "login", user |-> begin.user, password |-> p,
                                  raw |-> u]]
                /\ last' = NoTrace
        /\ UNCHANGED <<users, nextId, seeds, tasks, nextTaskId, timer, now, held, nodeEnv, jwtSecret,
                       jwtExpiresIn, taskModel>>

\* the same for an API client other than the browser
LoginStart(c, u, p) == ServeLoginStart(c, u, p) /\ UNCHANGED ui

\* mutant: a successful login re-issues the user's id, so that earlier tokens go stale
LoginFinish_Rotate(c) ==
    LET l == pending[c]
        err == LoginEnd(l.user, l.password)
        rotated == [l.user EXCEPT !.id = nextId]
        token == SignToken(rotated.id, now)
    IN  /\ l.op = "login"
        /\ pending' = [pending EXCEPT ![c] = Idle]
        /\ IF Truthy(err)
           THEN /\ last' = Failed("login", "login", Creds(l.raw, l.password), NoGate, TRUE,
                                  TRUE, err)
                /\ UNCHANGED <<held, users, nextId>>
           ELSE /\ nextId <= MaxIds
                /\ users' = [i \in 1..Len(users) |->
                                IF users[i].id = l.user.id THEN rotated ELSE users[i]]
                /\ nextId' = nextId + 1
                /\ last' = Trace("login", "login", Creds(l.raw, l.password), NoGate, TRUE,
                                 TRUE, None, Json(200, AuthBody(token, rotated)))
                /\ held' = [held EXCEPT ![c] = token]
        /\ UNCHANGED <<seeds, tasks, nextTaskId, timer, now, nodeEnv, jwtSecret,
                       jwtExpiresIn, taskModel, ui>>

\* login after the await: 401, or sign a token and respond 200.  login has no
\* try/catch: when signToken throws, its promise rejects, which Express 5 passes to
\* the error handler and Express 4 leaves unanswered (the version is not pinned in
\* the sources)
ServeLoginFinish(c) ==
    LET l == pending[c]
        err == LoginEnd(l.user, l.password)
        token == SignToken(l.user.id, now)
    IN  /\ l.op = "login"
        /\ pending' = [pending EXCEPT ![c] = Idle]
        /\ IF Truthy(err)
           THEN /\ last' = Failed("login", "login", Creds(l.raw, l.password), NoGate, TRUE,
                                  TRUE, err)
                /\ held' = held
           ELSE IF CanSign
           THEN /\ last' = Trace("login", "login", Creds(l.raw, l.password), NoGate, TRUE,
                                 TRUE, None, Json(200, AuthBody(token, l.user)))
                /\ held' = [held EXCEPT ![c] = token]
           ELSE /\ held' = held
                /\ \E forwarded \in BOOLEAN :
                      last' = IF forwarded
                              THEN Failed("login", "login", Creds(l.raw, l.password),
                                          NoGate, TRUE, TRUE, SignError)
                              ELSE Trace("login", "login", Creds(l.raw, l.password),
                                         NoGate, TRUE, TRUE, SignError, NoResponse)
        /\ UNCHANGED <<users, nextId, seeds, tasks, nextTaskId, timer, now, nodeEnv, jwtSecret,
                       jwtExpiresIn, taskModel>>

\* the same for an API client other than the browser
LoginFinish(c) == ServeLoginFinish(c) /\ UNCHANGED ui

\* a request to /api/tasks, handled in one turn of the event loop
ServeTask(route, hdr, idp, body) ==
    \E out \in {TaskPipeline(route, hdr, idp, body, users, tasks, nextTaskId, now)},
       req \in {[hdr |-> hdr, id |-> idp, body |-> body]} :
        /\ Len(out.tasks) - Len(SeedsOf(taskModel)) <= MaxTasks - Len(SeedTasks)
        /\ tasks' = out.tasks
        /\ nextTaskId' = IF Len(out.tasks) > Len(tasks) THEN nextTaskId + 1 ELSE nextTaskId
        /\ last' = IF Truthy(out.err)
                   THEN Failed("task", route, req, out.gate, out.ranValidator,
                               out.ranController, out.err)
                   ELSE Trace("task", route, req, out.gate, out.ranValidator,
                              out.ranController, None, out.ok)
        /\ UNCHANGED <<users, nextId, seeds, timer, pending, now, held, nodeEnv, jwtSecret,
                       jwtExpiresIn, taskModel>>

\* the same for an API client other than the browser
TaskRequest(route, hdr, idp, body) == ServeTask(route, hdr, idp, body) /\ UNCHANGED ui

\* the (username, password) bodies of the register and login requests
RegisterInputs ==
    {Creds(U_bob, P_secret1), Creds(U_blank, P_secret1), Creds(U_lt, P_secret1),
     Creds(U_ab, P_short)}
LoginInputs ==
    {Creds(U_bob, P_secret1), Creds(U_bob, SeedPassword), Creds(U_blank, P_secret1),
     Creds(TestUser, P_secret1)}

\* the auth flows: seeding, register and login with their races, and the gate
\* in front of GET /api/tasks
Next ==
    \/ SeedFinish
    \/ Tick
    \/ \E c \in Clients, b \in RegisterInputs : RegisterStart(c, b.username, b.password)
    \/ \E c \in Clients : RegisterFinish(c)
    \/ \E c \in Clients, b \in LoginInputs : LoginStart(c, b.username, b.password)
    \/ \E c \in Clients : LoginFinish(c)
    \/ \E tok \in HeldTokens :
          TaskRequest("list", Header(<<Text(Bearer), tok>>), NotUuid, <<>>)

Spec == Init /\ [][Next]_vars

\* the headers tried on every task route; the route GET /api/tasks gets them all
RouteHeaders == {None} \cup {Header(<<Text(Bearer), tok>>) : tok \in HeldTokens}

\* the gate: one client registers, then requests the task routes
NextGate ==
    \/ SeedFinish
    \/ ClearAll
    \/ UpdateTaskUserIds
    \/ Tick
    \/ RegisterStart("c1", U_bob, P_secret1)
    \/ RegisterFinish("c1")
    \/ \E hdr \in Headers : TaskRequest("list", hdr, NotUuid, <<>>)
    \/ \E hdr \in RouteHeaders : TaskRequest("get", hdr, Uuid(4), <<>>)
    \/ \E hdr \in RouteHeaders : TaskRequest("create", hdr, NotUuid, [title |-> T_new])
    \/ \E hdr \in RouteHeaders : TaskRequest("update", hdr, Uuid(4), [completed |-> TRUE])
    \/ \E hdr \in RouteHeaders : TaskRequest("delete", hdr, Uuid(4), <<>>)

SpecGate == Init /\ [][NextGate]_vars



U_empty == <<>>

\* tokens signed with the process secret by another issuer, not yet active
NotYetValid ==
    {[kind |-> "jwt", id |-> i, exp |-> MaxTime + 2, sig |-> JwtSecret, nbf |-> MaxTime + 1] :
        i \in 1..(nextId - 1)}

EnvRegisterInputs ==
    {Creds(U_bob, P_secret1), Creds(U_ab, P_secret1), Creds(U_bob, P_short)}
EnvLoginInputs ==
    {Creds(U_bob, P_secret1), Creds(TestUser, SeedPassword), Creds(U_bob, SeedPassword),
     Creds(U_empty, P_secret1), Creds(U_bob, U_empty)}

\* every NODE_ENV, with JWT_SECRET set or not: one client registers, logs in and
\* reads tasks, and the user store is cleared
InitEnv == InitWith(NodeEnvs, {JwtSecret, NoSecret}, {JwtExpiresIn})

NextEnv ==
    \/ SeedFinish
    \/ ClearAll
    \/ Tick
    \/ \E b \in EnvRegisterInputs : RegisterStart("c1", b.username, b.password)
    \/ RegisterFinish("c1")
    \/ \E b \in EnvLoginInputs : LoginStart("c1", b.username, b.password)
    \/ LoginFinish("c1")
    \/ \E hdr \in RouteHeaders \cup {Header(<<Text(Bearer), tok>>) : tok \in NotYetValid} :
          TaskRequest("list", hdr, NotUuid, <<>>)
    \/ \E hdr \in RouteHeaders : TaskRequest("get", hdr, Uuid(1), <<>>)

SpecEnv == InitEnv /\ [][NextEnv]_vars

\* tokens that outlive a tick: one client registers, both log in as that user and
\* use the tokens they hold on every task route
InitLogin == InitWith({"production"}, {JwtSecret}, {JwtExpiresIn + 1})

NextLogin ==
    \/ SeedFinish
    \/ Tick
    \/ RegisterStart("c1", U_bob, P_secret1)
    \/ RegisterFinish("c1")
    \/ \E c \in Clients, p \in {P_secret1, SeedPassword} : LoginStart(c, U_bob, p)
    \/ \E c \in Clients : LoginFinish(c)
    \/ \E hdr \in RouteHeaders : TaskRequest("list", hdr, NotUuid, <<>>)
    \/ \E hdr \in RouteHeaders : TaskRequest("get", hdr, Uuid(Len(SeedTasks) + 1), <<>>)
    \/ \E hdr \in RouteHeaders : TaskRequest("create", hdr, NotUuid, [title |-> T_new])
    \/ \E hdr \in RouteHeaders :
          TaskRequest("update", hdr, Uuid(Len(SeedTasks) + 1), [completed |-> TRUE])
    \/ \E hdr \in RouteHeaders : TaskRequest("delete", hdr, Uuid(Len(SeedTasks) + 1), <<>>)

SpecLogin == InitLogin /\ [][NextLogin]_vars

\* the task ids requested: a seeded task and the first task a client creates
Targets == {Uuid(1), Uuid(Len(SeedTasks) + 1)}

\* update bodies: the completed flag alone, and with an id and a userId besides
UpdateBodies ==
    {[completed |-> TRUE], [completed |-> TRUE, id |-> 1, userId |-> Placeholder]}

\* the headers of the clients that hold a token
ClientHeaders == {Header(<<Text(Bearer), tok>>) : tok \in HeldTokens}

\* two users and their tasks: one client registers, the other logs in as the default
\* user, and both use their tokens on every task route for both task ids
NextTasks ==
    \/ SeedFinish
    \/ UpdateTaskUserIds
    \/ RegisterStart("c1", U_bob, P_secret1)
    \/ RegisterFinish("c1")
    \/ LoginStart("c2", TestUser, SeedPassword)
    \/ LoginFinish("c2")
    \/ \E hdr \in ClientHeaders : TaskRequest("list", hdr, NotUuid, <<>>)
    \/ \E hdr \in ClientHeaders, id \in Targets : TaskRequest("get", hdr, id, <<>>)
    \/ \E hdr \in ClientHeaders : TaskRequest("create", hdr, NotUuid, [title |-> T_new])
    \/ \E hdr \in ClientHeaders, id \in Targets, body \in UpdateBodies :
          TaskRequest("update", hdr, id, body)
    \/ \E hdr \in ClientHeaders, id \in Targets : TaskRequest("delete", hdr, id, <<>>)

SpecTasks == Init /\ [][NextTasks]_vars

\* the same under the event loop's scheduling: the pending seed resumes and the
\* timer fires
SpecSeeding ==
    Init /\ [][NextTasks]_vars /\ WF_vars(SeedFinish) /\ WF_vars(UpdateTaskUserIds)

(* ------------------------------ browser actions ------------------------ *)
server == <<users, nextId, seeds, tasks, nextTaskId, timer, pending, now, held,
            nodeEnv, jwtSecret, jwtExpiresIn, taskModel>>

\* the page is opened or reloaded: the requests of the page before are abandoned
UiLoad ==
    /\ ui # FirstRender(ui.storage)
    /\ ui' = FirstRender(ui.storage)
    /\ last' = NoTrace
    /\ UNCHANGED server

\* AuthProvider's mount effect runs, and App renders what follows from it
UiMount ==
    /\ ui.open /\ ui.loading
    /\ ui' = Render(ui, MountEffect(ui))
    /\ last' = NoTrace
    /\ UNCHANGED server

\* login and register after `await loginUser(...)`, `await registerUser(...)`
AuthSettled(u, resp) ==
    LET result == ApiResult(resp)
        done == [u EXCEPT !.awaiting = FALSE]
    IN  IF result.ok THEN Render(done, LoggedIn(done, result.data)) ELSE done

\* AuthContext.register up to its await, from the auth form, whose button is
\* disabled while a submit is in progress; the server takes the request up to its own
UiRegisterSend(u, p) ==
    /\ Shown(ui) = "auth" /\ ~ui.awaiting
    /\ ServeRegisterStart("c1", u, p)
    /\ ui' = [ui EXCEPT !.awaiting = ~last'.resp.sent]

\* the server answers the register request; the page, if it still waits, goes on
UiRegisterDone ==
    /\ ServeRegisterFinish("c1")
    /\ ui' = IF ui.awaiting /\ last'.resp.sent THEN AuthSettled(ui, last'.resp) ELSE ui
    /\ Len(ui'.fetches) <= MaxFetches

\* AuthContext.login up to its await
UiLoginSend(u, p) ==
    /\ Shown(ui) = "auth" /\ ~ui.awaiting
    /\ ServeLoginStart("c1", u, p)
    /\ ui' = [ui EXCEPT !.awaiting = ~last'.resp.sent]

\* the server answers the login request
UiLoginDone ==
    /\ ServeLoginFinish("c1")
    /\ ui' = IF ui.awaiting /\ last'.resp.sent THEN AuthSettled(ui, last'.resp) ELSE ui
    /\ Len(ui'.fetches) <= MaxFetches

\* the Logout button of the dashboard
UiLogout ==
    /\ Shown(ui) = "dashboard"
    /\ ui' = Render(ui, Logout(ui))
    /\ last' = NoTrace
    /\ UNCHANGED server

\* handleTaskSubmit, handleUpdateTaskStatus, handleDeleteTask: the API call, which
\* the server handles, and after its await fetchTasks(), not awaited (the call and
\* its answer are one step: the steps in between are those of the fetches)
UiSubmit(route, idp, body) ==
    /\ Shown(ui) = "dashboard"
    /\ Len(ui.fetches) < MaxFetches
    /\ ServeTask(route, AuthorizationOf(ui.token), idp, body)
    /\ nextTaskId' <= MaxTasks + 1
    /\ ui' = IF ApiResult(last'.resp).ok THEN FetchTasks(ui) ELSE ui

\* the server handles the i-th getTasks call in flight
UiFetchServe(i) ==
    /\ i \in DOMAIN ui.fetches
    /\ ui.fetches[i].phase = "sent"
    /\ ServeTask("list", AuthorizationOf(ui.fetches[i].token), NotUuid, <<>>)
    /\ ui' = [ui EXCEPT !.fetches[i] =
                 [@ EXCEPT !.phase = IF last'.resp.sent THEN "answered" ELSE "hung",
                           !.resp = last'.resp]]

\* the answer to the i-th getTasks call arrives, in any order
UiFetchDone(i) ==
    /\ i \in DOMAIN ui.fetches
    /\ ui.fetches[i].phase = "answered"
    /\ ui' = FetchSettled(ui, i)
    /\ last' = Trace("fetchTasks", "list", [token |-> ui.fetches[i].token], NoGate,
                     FALSE, FALSE, None, ui.fetches[i].resp)
    /\ UNCHANGED server

\* what localStorage may hold when the page is opened
OldToken == [kind |-> "jwt", id |-> 1, exp |-> JwtExpiresIn, sig |-> JwtSecret]
StoredSessions ==
    {Storage(None, None),
     Storage(OldToken, JsonStringify([id |-> 1, username |-> U_bob])),
     Storage(OldToken, None),
     Storage(OldToken, NotJson)}

FormBody == [title |-> T_new, description |-> T_x, completed |-> FALSE, status |-> "todo"]

\* one browser tab with an empty localStorage: the auth page, the dashboard, the
\* form, the Delete button of every card and the status menu of the first
InitBrowser ==
    /\ InitServer({"production"}, {JwtSecret}, {JwtExpiresIn}, {"taskModel.js"})
    /\ ui = Closed(Storage(None, None))

NextBrowser ==
    \/ Tick
    \/ UiLoad
    \/ UiMount
    \/ UiRegisterSend(U_bob, P_secret1)
    \/ UiRegisterDone
    \/ UiLoginSend(U_bob, P_secret1)
    \/ UiLoginDone
    \/ UiLogout
    \/ UiSubmit("create", NotUuid, FormBody)
    \/ \E k \in DOMAIN ui.allTasks \cap {1} :
          UiSubmit("update", Uuid(ui.allTasks[k].id), [status |-> "completed"])
    \/ \E k \in DOMAIN ui.allTasks : UiSubmit("delete", Uuid(ui.allTasks[k].id), <<>>)
    \/ \E i \in 1..MaxFetches : UiFetchServe(i)
    \/ \E i \in 1..MaxFetches : UiFetchDone(i)

SpecBrowser == InitBrowser /\ [][NextBrowser]_vars

\* the auth context over what localStorage may hold: loads, register, login,
\* logout, and the dashboard's fetches
InitAuth ==
    /\ InitServer({"production"}, {JwtSecret}, {JwtExpiresIn}, {"taskModel.js"})
    /\ ui \in {Closed(s) : s \in StoredSessions}

NextAuth ==
    \/ SeedFinish
    \/ Tick
    \/ UiLoad
    \/ UiMount
    \/ UiRegisterSend(U_bob, P_secret1)
    \/ UiRegisterDone
    \/ \E b \in {Creds(U_bob, P_secret1), Creds(TestUser, SeedPassword),
                  Creds(U_bob, P_short)} : UiLoginSend(b.username, b.password)
    \/ UiLoginDone
    \/ UiLogout
    \/ \E i \in 1..MaxFetches : UiFetchServe(i)
    \/ \E i \in 1..MaxFetches : UiFetchDone(i)

SpecAuth == InitAuth /\ [][NextAuth]_vars

(* ------------------------------ claims --------------------------------- *)
BearerHeader(tok) == Header(<<Text(Bearer), tok>>)

\* the error login ends with for the body (u, p), were it to run against us
LoginResult(us, u, p) ==
    LET begin == LoginBegin(us, u, p)
    IN  IF begin.done THEN begin.err ELSE LoginEnd(begin.user, p)

Registered201 == last.op = "register" /\ last.resp.sent /\ last.resp.statusCode = 201

\* C1: after register answers 201 for (username, password), a login with the same
\* credentials succeeds, and the token it returns passes the protect gate and resolves
\* to the user that register created (same id and username).
C1_RegisterThenLogin ==
    Registered201 =>
        LET u == last.req.username
            p == last.req.password
            begin == LoginBegin(users, u, p)
        IN  /\ ~begin.done
            /\ ~Truthy(LoginEnd(begin.user, p))
            /\ LET gate == Protect(BearerHeader(SignToken(begin.user.id, now)), users, now)
               IN  /\ gate.outcome = "ACCEPTED"
                   /\ UserView(gate.user) = last.resp.body.user

\* C2: the user store never holds two records with the same username, whatever the
\* interleaving of the register requests.
C2_NoDuplicateUsername ==
    \A i, j \in 1..Len(users) : users[i].username = users[j].username => i = j

\* C3: once register has completed for a username, a second register with that
\* username fails with 409, and whenever register answers 409 the store holds exactly
\* one record for the username.
C3_SecondRegisterConflict ==
    /\ Registered201 =>
          LET again == RegisterBegin(users, last.req.username, last.req.password).err
          IN  /\ Truthy(again)
              /\ again.statusCode = 409
              /\ CountUsername(users, Sanitize(last.req.username)) = 1
    /\ (last.op = "register" /\ Truthy(last.err) /\ last.err.statusCode = 409) =>
          CountUsername(users, Sanitize(last.req.username)) = 1


\* a login body that reaches the user lookup: it passes the chains and neither the
\* sanitized username nor the password is empty
ReachesLookup(u, p) == LoginErrors(u, p) = <<>> /\ Sanitize(u) # <<>> /\ p # <<>>

UnknownUsername(us, u, p) ==
    ReachesLookup(u, p) /\ ~Truthy(FindByUsername(us, Sanitize(u)))

WrongPassword(us, u, p) ==
    /\ ReachesLookup(u, p)
    /\ Truthy(FindByUsername(us, Sanitize(u)))
    /\ ~Compare(p, FindByUsername(us, Sanitize(u)).password)

TaskTrace == last.op = "task"

\* the token protect reads from the header of the request just handled
Presented ==
    IF Truthy(last.req.hdr) /\ StartsWithBearer(last.req.hdr)
    THEN ExtractToken(last.req.hdr) ELSE Undefined

SubjectExists(tok) == \E i \in 1..Len(users) : users[i].id = tok.id

RejectedWith(msg, code) ==
    /\ last.gate.outcome = "REJECTED"
    /\ last.gate.user = None
    /\ ~last.ranValidator /\ ~last.ranController
    /\ Truthy(last.err) /\ last.err.message = msg /\ last.err.statusCode = code

\* C4: a task request passes the gate (req.user set, the route's handlers run) only if
\* its token is signed with the process secret, the time is before the token's expiry
\* and the token's id is the id of a user in the store, who becomes req.user.
C4_AcceptedOnlyIfValid ==
    (TaskTrace /\ (last.gate.outcome # "REJECTED" \/ last.ranValidator
                   \/ last.ranController)) =>
        /\ last.gate.outcome = "ACCEPTED"
        /\ Presented.kind = "jwt"
        /\ Presented.sig = JwtSecret
        /\ now < Presented.exp
        /\ \E i \in 1..Len(users) : users[i].id = Presented.id /\ last.gate.user = users[i]

C4_Witness == TaskTrace /\ last.gate.outcome = "ACCEPTED" /\ last.ranController

\* C5: on every task route, a request the gate does not accept runs neither the
\* validator nor the controller, leaves the task store unchanged, and ends with the
\* error protect gives for its header, whatever the route.
C5_GateBeforeEveryRoute ==
    [][(last'.op = "task" /\ last'.gate.outcome # "ACCEPTED") =>
          /\ last'.gate.outcome = "REJECTED"
          /\ ~last'.ranValidator /\ ~last'.ranController
          /\ tasks' = tasks /\ nextTaskId' = nextTaskId
          /\ last'.err = Protect(last'.req.hdr, users, now).err]_vars

\* the gate has rejected a request on a route that would change the task store
C5_Witness ==
    /\ TaskTrace /\ last.route \in {"create", "update", "delete"}
    /\ last.gate.outcome = "REJECTED"
    /\ Len(tasks) > Len(SeedTasks)

\* the header has the shape `Bearer <token>`
WellShaped(hdr) ==
    /\ Truthy(hdr)
    /\ Len(hdr.fields) = 2
    /\ hdr.fields[1] = Text(Bearer)
    /\ Truthy(hdr.fields[2])

\* C7: a request without an Authorization header, or with one that is not of the shape
\* `Bearer <token>`, is rejected with 401 "not logged in", and neither jwt.verify nor
\* the user lookup is attempted.
C7_NoBearerRejected ==
    (TaskTrace /\ ~WellShaped(last.req.hdr)) =>
        /\ RejectedWith(MsgNotLoggedIn, 401)
        /\ ~last.gate.verified /\ ~last.gate.lookedUp

\* C8: a token signed with the process secret whose expiry has passed is rejected with
\* 401 "token has expired", also when its subject exists.
C8_ExpiredRejected ==
    (TaskTrace /\ Presented.kind = "jwt" /\ Presented.sig = JwtSecret
       /\ now >= Presented.exp) =>
        RejectedWith(MsgExpired, 401)

C8_Witness ==
    /\ TaskTrace /\ Presented.kind = "jwt" /\ Presented.sig = JwtSecret
    /\ now >= Presented.exp /\ SubjectExists(Presented)
    /\ last.err.message = MsgExpired

C10_StaleUserRejected ==
    (TaskTrace /\ Presented.kind = "jwt" /\ Presented.sig = JwtSecret
       /\ now < Presented.exp /\ ~SubjectExists(Presented)) =>
        /\ RejectedWith(MsgStaleUser, 401)
        /\ last.gate.verified /\ last.gate.lookedUp

\* the token of a user removed by clearAll is presented after the re-seed
C10_Witness ==
    /\ TaskTrace /\ Presented.kind = "jwt" /\ Presented.sig = JwtSecret
    /\ now < Presented.exp /\ ~SubjectExists(Presented)
    /\ users # <<>>
    /\ last.err.message = MsgStaleUser

(* ------------------------------ effects and responses ------------------ *)
\* C11: a register request that ends with an error leaves the user store as it was;
\* a register request changes the store only when it answers 201, and then by
\* appending exactly one record.
C11_RegisterErrorLeavesStore ==
    [][last'.op = "register" =>
          IF Truthy(last'.err) THEN users' = users
          ELSE /\ last'.resp.statusCode = 201
               /\ Len(users') = Len(users) + 1
               /\ SubSeq(users', 1, Len(users)) = users]_vars

\* C12: a login, successful or not, changes neither the user store nor the task
\* store, and every token a client held before it is treated by the gate as before:
\* accepted, for the same user id, as long as it has not expired.
C12_LoginChangesNothing ==
    [][last'.op = "login" =>
          /\ users' = users /\ nextId' = nextId
          /\ tasks' = tasks /\ nextTaskId' = nextTaskId
          /\ \A c \in Clients :
                Truthy(held[c]) =>
                    LET before == Protect(BearerHeader(held[c]), users, now)
                        after == Protect(BearerHeader(held[c]), users', now')
                    IN  /\ after = before
                        /\ now' < held[c].exp =>
                              /\ after.outcome = "ACCEPTED"
                              /\ after.user.id = held[c].id]_vars

\* a login has just issued a token while another client holds an earlier, different
\* token of the same user, and the gate accepts both
C12_Witness ==
    /\ last.op = "login" /\ last.resp.sent /\ last.resp.statusCode = 200
    /\ \E c, d \in Clients :
          /\ Truthy(held[c]) /\ Truthy(held[d])
          /\ held[d] = last.resp.body.token
          /\ held[c] # held[d] /\ held[c].id = held[d].id
          /\ Protect(BearerHeader(held[c]), users, now).outcome = "ACCEPTED"
          /\ Protect(BearerHeader(held[d]), users, now).outcome = "ACCEPTED"

\* C13: every request whose handling has completed has been sent a response, under
\* every NODE_ENV, and an error outside the operational taxonomy is answered with the
\* generic 500.
C13_EveryRequestAnswered ==
    last.op # "none" =>
        /\ last.resp.sent
        /\ (Truthy(last.err) /\ ~last.err.isOperational) =>
              /\ last.resp.statusCode = 500
              /\ nodeEnv = "production" => last.resp.body.message = "Something went very wrong!"

\* the error object sendErrorDev puts in the body carries no user and no hash
ErrorHashless(err) ==
    /\ DOMAIN err = {"kind", "message", "statusCode", "status", "isOperational",
                     "validationErrors"}
    /\ \A i \in 1..Len(err.validationErrors) :
          DOMAIN err.validationErrors[i] = {"param", "msg"}

TaskHashless(task) ==
    DOMAIN task = {"kind", "id", "userId", "title", "description", "completed"}

\* a response body has no field that holds a password hash or a stored user record
Hashless(body) ==
    CASE body.kind = "auth" ->
            /\ DOMAIN body = {"kind", "status", "token", "user"}
            /\ DOMAIN body.user = {"id", "username"}
            /\ DOMAIN body.token = {"kind", "id", "exp", "sig"}
      [] body.kind = "error" ->
            /\ DOMAIN body \subseteq {"kind", "status", "error", "message", "validationErrors"}
            /\ "error" \in DOMAIN body => ErrorHashless(body.error)
            /\ \A i \in 1..Len(body.validationErrors) :
                  DOMAIN body.validationErrors[i] = {"param", "msg"}
      [] body.kind = "tasks" ->
            /\ DOMAIN body = {"kind", "status", "results", "tasks"}
            /\ \A i \in 1..Len(body.tasks) : TaskHashless(body.tasks[i])
      [] body.kind = "task" ->
            /\ DOMAIN body = {"kind", "status", "task"}
            /\ TaskHashless(body.task)
      [] body.kind = "empty" -> DOMAIN body = {"kind", "status"}
      [] OTHER -> FALSE

\* C14: no response body of register, login, a task route or the error handler holds
\* a password hash; the user view in it has the fields id and username only.
C14_NoHashInResponses == last.resp.sent => Hashless(last.resp.body)

\* a login has been answered 200 in development mode for a user with a stored hash
C14_Witness ==
    /\ last.op = "login" /\ last.resp.sent /\ last.resp.statusCode = 200
    /\ nodeEnv = "development"
    /\ \E i \in 1..Len(users) :
          UserView(users[i]) = last.resp.body.user /\ users[i].password.kind = "bcrypt"

\* the token presented makes jwt.verify throw an error that is neither a
\* JsonWebTokenError nor a TokenExpiredError
UnexpectedVerifyError ==
    /\ TaskTrace /\ Truthy(Presented)
    /\ LET decoded == JwtVerify(Presented, jwtSecret, now)
       IN  ~decoded.ok /\ decoded.name \notin {"JsonWebTokenError", "TokenExpiredError"}

\* C15: when jwt.verify throws an error of another kind, the gate rejects the request
\* with the AppError 'Authentication failed.' of status 500, no handler runs, and a
\* response that is sent carries status 500 and that message only, the error object
\* in it being the AppError and not the error jwt.verify threw.
C15_UnexpectedVerifyError ==
    UnexpectedVerifyError =>
        /\ RejectedWith(MsgAuthFailed, 500)
        /\ last.err = AppError(MsgAuthFailed, 500, <<>>)
        /\ last.resp.sent =>
              /\ last.resp.statusCode = 500
              /\ last.resp.body.message = MsgAuthFailed
              /\ "error" \in DOMAIN last.resp.body => last.resp.body.error = last.err

\* a token that is not yet active has been answered in development mode
C15_Witness ==
    /\ UnexpectedVerifyError /\ last.resp.sent /\ last.resp.statusCode = 500
    /\ nodeEnv = "development"

\* the body of an auth request fails the validation the routes state
InvalidBody(op, u, p) ==
    IF op = "register" THEN Len(u) < 3 \/ Len(p) < 6 ELSE Len(u) = 0 \/ Len(p) = 0

\* C16: a register or login request whose body fails validation ends with the 400
\* 'Validation failed' error before the controller runs: the user store is unchanged,
\* no hash or compare is started and no token is handed out.
C16_InvalidBodyRejected ==
    [][(last'.op \in {"register", "login"}
          /\ InvalidBody(last'.op, last'.req.username, last'.req.password)) =>
            /\ Truthy(last'.err)
            /\ last'.err.statusCode = 400 /\ last'.err.message = MsgValidation
            /\ last'.ranValidator /\ ~last'.ranController
            /\ users' = users /\ nextId' = nextId
            /\ pending' = pending
            /\ held' = held]_vars

\* a register whose password alone is too short was rejected while its username
\* is free
C16_Witness ==
    /\ last.op = "register" /\ Truthy(last.err) /\ last.err.statusCode = 400
    /\ Len(last.req.username) >= 3 /\ Len(last.req.password) < 6
    /\ ~Truthy(FindByUsername(users, Sanitize(last.req.username)))
    /\ users # <<>>

(* ------------------------------ the stores ----------------------------- *)
\* C17: no step of register, login, the gate or a task route changes or removes a
\* record of the user store: every record stays at its place with its id, username
\* and password hash.
C17_UsersImmutable ==
    [][\A i \in 1..Len(users) : i <= Len(users') /\ users'[i] = users[i]]_vars

\* both users are stored, both clients hold a token and a task has been deleted
C17_Witness ==
    /\ Len(users) = 2
    /\ \A c \in Clients : Truthy(held[c])
    /\ last.op = "task" /\ last.route = "delete" /\ ~Truthy(last.err)

\* C18: the user store never holds two records with the username 'testuser'.
C18_OneTestUser == CountUsername(users, TestUser) <= 1

\* C19: eventually, and from then on, no task has the placeholder userId and the
\* seeded tasks have the id of 'testuser' as their userId.
C19_SeedTasksLinked ==
    <>[](\A i \in 1..Len(tasks) :
            /\ tasks[i].userId # Placeholder
            /\ tasks[i].id <= Len(SeedTasks) =>
                  /\ Truthy(FindByUsername(users, TestUser))
                  /\ tasks[i].userId = FindByUsername(users, TestUser).id)

\* the task a request names is stored and belongs to the user the gate accepted
OwnTask(ts, id, user) ==
    \E i \in 1..Len(ts) : ts[i].id = id /\ ts[i].userId = user.id

\* C20: a get, update or delete that passes the gate and names a task id that is not
\* stored, or is stored for another user, ends with 404 and leaves the task store
\* unchanged; a task route changes or removes only tasks of the requesting user and
\* returns only tasks of the requesting user.
C20_OnlyOwnTasks ==
    [][(last'.op = "task" /\ last'.gate.outcome = "ACCEPTED") =>
          /\ (last'.route \in {"get", "update", "delete"}
                /\ last'.req.id.uuid
                /\ ~OwnTask(tasks, last'.req.id.n, last'.gate.user)) =>
                  /\ Truthy(last'.err) /\ last'.err.statusCode = 404
                  /\ tasks' = tasks
          /\ \A i \in 1..Len(tasks) :
                (i > Len(tasks') \/ tasks'[i] # tasks[i]) =>
                    \E j \in 1..Len(tasks) :
                        /\ tasks[j].userId = last'.gate.user.id
                        /\ j <= i
                        /\ (j > Len(tasks') \/ tasks'[j] # tasks[j])
          /\ (last'.resp.sent /\ last'.resp.body.kind = "task") =>
                last'.resp.body.task.userId = last'.gate.user.id
          /\ (last'.resp.sent /\ last'.resp.body.kind = "tasks") =>
                \A i \in 1..Len(last'.resp.body.tasks) :
                    last'.resp.body.tasks[i].userId = last'.gate.user.id]_vars

\* a delete of a stored task of another user has been answered 404
C20_Witness ==
    /\ last.op = "task" /\ last.route = "delete" /\ last.gate.outcome = "ACCEPTED"
    /\ Truthy(TaskFindById(tasks, last.req.id.n))
    /\ TaskFindById(tasks, last.req.id.n).userId \notin {Placeholder, last.gate.user.id}
    /\ Truthy(last.err) /\ last.err.statusCode = 404

(* ------------------------------ the task store ------------------------- *)
\* a GET /api/tasks has been answered 200
Listed == TaskTrace /\ last.route = "list" /\ last.resp.sent /\ last.resp.statusCode = 200

\* C21: the tasks a GET /api/tasks returns are exactly the stored tasks whose userId
\* is the id of the authenticated user, each once, and `results` is their number.
C21_ListIsOwnTasks ==
    Listed =>
        LET body == last.resp.body
            uid == last.gate.user.id
            own == {j \in 1..Len(tasks) : tasks[j].userId = uid}
        IN  /\ \A i \in 1..Len(body.tasks) :
                  /\ body.tasks[i].userId = uid
                  /\ \E j \in own : tasks[j] = body.tasks[i]
            /\ \A j \in own : \E i \in 1..Len(body.tasks) : body.tasks[i] = tasks[j]
            /\ Len(body.tasks) = Cardinality(own)
            /\ body.results = Len(body.tasks)

\* a list was returned to a user who owns some of the stored tasks and not others
C21_Witness ==
    /\ Listed
    /\ Len(last.resp.body.tasks) >= 2
    /\ \E j \in 1..Len(tasks) : tasks[j].userId \notin {Placeholder, last.gate.user.id}

\* C22: a task route keeps the id and the userId of every stored task; an update
\* changes neither, whatever fields its body has, and the ids of the stored tasks
\* stay pairwise distinct.
C22_IdAndOwnerKept ==
    [][last'.op = "task" =>
          /\ \A i \in 1..Len(tasks), j \in 1..Len(tasks') :
                tasks'[j].id = tasks[i].id => tasks'[j].userId = tasks[i].userId
          /\ (last'.route = "update" /\ ~Truthy(last'.err)) =>
                /\ Len(tasks') = Len(tasks)
                /\ \A i \in 1..Len(tasks) :
                      tasks'[i].id = tasks[i].id /\ tasks'[i].userId = tasks[i].userId
          /\ \A i, j \in 1..Len(tasks') : tasks'[i].id = tasks'[j].id => i = j]_vars

\* an update whose body names another id and another userId has succeeded
C22_Witness ==
    /\ TaskTrace /\ last.route = "update" /\ ~Truthy(last.err)
    /\ "userId" \in DOMAIN last.req.body /\ "id" \in DOMAIN last.req.body
    /\ last.req.body.id # last.req.id.n
    /\ last.req.body.userId # TaskFindById(tasks, last.req.id.n).userId
    /\ TaskFindById(tasks, last.req.id.n).completed

\* C24: a delete answered with success removes the task of that id, which was the
\* requester's, and nothing else: the other tasks stay as they were, in their order;
\* the task is then found by no get and no list, a repeated delete ends with 404, and
\* remove returns true exactly for the ids that are stored.
C24_DeleteRemovesOne ==
    [][/\ \A n \in 1..nextTaskId :
             TaskRemoved(tasks, n) <=> (\E i \in 1..Len(tasks) : tasks[i].id = n)
       /\ (last'.op = "task" /\ last'.route = "delete" /\ ~Truthy(last'.err)) =>
             LET id == last'.req.id.n
                 user == last'.gate.user
                 k == CHOOSE i \in 1..Len(tasks) : tasks[i].id = id
                 again(route) == TaskPipeline(route, last'.req.hdr, last'.req.id, <<>>,
                                              users', tasks', nextTaskId', now')
             IN  /\ OwnTask(tasks, id, user)
                 /\ Len(tasks') = Len(tasks) - 1
                 /\ \A i \in 1..Len(tasks') :
                       tasks'[i] = tasks[IF i < k THEN i ELSE i + 1]
                 /\ ~Truthy(TaskFindById(tasks', id))
                 /\ \A i \in 1..Len(FindByUserId(tasks', user.id)) :
                       FindByUserId(tasks', user.id)[i].id # id
                 /\ Truthy(again("get").err) /\ again("get").err.statusCode = 404
                 /\ Truthy(again("delete").err) /\ again("delete").err.statusCode = 404
                 /\ again("delete").tasks = tasks'
                 /\ TaskRemoved(tasks, id) /\ ~TaskRemoved(tasks', id)]_vars

\* the owner has deleted a task that was stored before tasks of both users
C24_Witness ==
    /\ TaskTrace /\ last.route = "delete" /\ ~Truthy(last.err)
    /\ last.resp.statusCode = 204
    /\ last.req.id.n = 1
    /\ Len(tasks) > 2
    /\ \E i \in 1..Len(tasks) : tasks[i].userId # last.gate.user.id

(* ------------------------------ creating tasks ------------------------- *)
\* the bodies the task form submits: taskData without its undefined id
CreateBodies ==
    {[title |-> T_new, description |-> T_x, completed |-> c, status |-> st] :
        c \in BOOLEAN, st \in Statuses}

\* the latest task created
Latest == Uuid(nextTaskId - 1)

\* both revisions of taskModel: the default user logs in, creates tasks from the
\* form, lists them and sets the status of the latest
InitCreate == InitOf({"production"}, {JwtSecret}, {JwtExpiresIn}, TaskModels)

NextCreate ==
    \/ SeedFinish
    \/ UpdateTaskUserIds
    \/ LoginStart("c2", TestUser, SeedPassword)
    \/ LoginFinish("c2")
    \/ \E hdr \in ClientHeaders, body \in CreateBodies :
          TaskRequest("create", hdr, NotUuid, body)
    \/ \E hdr \in ClientHeaders : TaskRequest("list", hdr, NotUuid, <<>>)
    \/ \E hdr \in ClientHeaders, st \in Statuses :
          TaskRequest("update", hdr, Latest, [status |-> st])

SpecCreate == InitCreate /\ [][NextCreate]_vars

\* C23: a task created from {title, description, completed, status} is stored
\* with the status submitted and the caller as its owner, and the list of the
\* caller's tasks returns it with that status.
C23_CreateKeepsStatus ==
    /\ (TaskTrace /\ last.route = "create" /\ last.resp.sent /\ last.resp.statusCode = 201)
        => LET stored == TaskFindById(tasks, last.resp.body.task.id)
               listed == FindByUserId(tasks, last.gate.user.id)
           IN  /\ Truthy(stored)
               /\ stored.userId = last.gate.user.id
               /\ Has(stored, "status")
               /\ stored.status = last.req.body.status
               /\ \E i \in 1..Len(listed) :
                     /\ listed[i].id = stored.id
                     /\ Has(listed[i], "status")
                     /\ listed[i].status = last.req.body.status

(* ------------------------------ the browser ---------------------------- *)
\* C25: in the dashboard, once no request is in flight, allTasks is the server's
\* list of the user's tasks: no answer to an older fetch overwrites a newer one.
C25_ListMatchesServer ==
    (Shown(ui) = "dashboard" /\ ui.user # None /\ ui.fetches = <<>>)
        => ui.allTasks = FindByUserId(tasks, ui.user.id)

\* C26: when fetchTasks fails with 401 or 403, the token and the user are gone
\* from the state and from localStorage, isAuthenticated is false and the app
\* shows the auth page.
C26_AuthFailureLogsOut ==
    (last.op = "fetchTasks" /\ last.resp.statusCode \in {401, 403})
        => /\ ui.token = None /\ ui.user = None
           /\ ui.storage = Storage(None, None)
           /\ ~IsAuthenticated(ui)
           /\ Shown(ui) = "auth"

\* the fetch of a dashboard still mounted was answered 401
C26_Witness ==
    /\ last.op = "fetchTasks" /\ last.resp.statusCode = 401
    /\ last.resp.body.message = MsgExpired
    /\ Shown(ui) = "auth"

\* C27: once loading is false, isAuthenticated holds only with a token and a user
\* in the state, equal to the token and the user kept in localStorage.
C27_AuthenticatedMeansSession ==
    (ui.open /\ ~ui.loading /\ IsAuthenticated(ui))
        => /\ ui.user # None
           /\ ui.storage.token = ui.token
           /\ JsonParse(ui.storage.user).ok
           /\ JsonParse(ui.storage.user).value = ui.user

\* C28: for every request the gate handles, protect calls next exactly once: with
\* no argument after setting req.user (ACCEPTED), or with one AppError and req.user
\* unset (REJECTED); the outcome recorded for the request is that one call's.
C28_NextCalledOnce ==
    TaskTrace =>
        LET calls == ProtectCalls(last.req.hdr, users, now)
        IN  /\ Len(calls) = 1
            /\ last.gate.outcome \in {"ACCEPTED", "REJECTED"}
            /\ IF Truthy(calls[1].arg)
               THEN /\ calls[1].arg.kind = "AppError"
                    /\ ~Truthy(calls[1].user)
                    /\ last.gate.outcome = "REJECTED"
                    /\ last.gate.err = calls[1].arg
                    /\ ~Truthy(last.gate.user)
               ELSE /\ Truthy(calls[1].user)
                    /\ last.gate.outcome = "ACCEPTED"
                    /\ ~Truthy(last.gate.err)
                    /\ last.gate.user = calls[1].user

\* the gate has looked a token's user up and found none
C28_Witness ==
    /\ TaskTrace /\ last.gate.lookedUp /\ last.gate.outcome = "REJECTED"
    /\ Len(ProtectCalls(last.req.hdr, users, now)) = 1
    /\ users # <<>>

====
